---- MODULE Spec2Model ----
(***************************************************************************)
(* A model of the sandboxed code execution tools of claude-engineer:       *)
(* tools/dockercodetool.py (DockerCodeTool) and                            *)
(* tools/enhanceddockercodetool.py (EnhancedDockerCodeTool), and of its    *)
(* documentation scraper, tools/documentationscrapertool.py.               *)
(*                                                                         *)
(* Python values are represented as follows.                               *)
(*   str    a sequence of one-character strings; the text of an exception  *)
(*          raised by a library (docker, os, binascii) is a one-element    *)
(*          sequence holding the whole message as a single token.          *)
(*   bytes  a sequence of numbers in 0..255.                               *)
(*   None   the one-element sequence None.                                 *)
(*   dict   a function.                                                    *)
(***************************************************************************)
EXTENDS Integers, Sequences, FiniteSets, TLC

VARIABLES
    pc,               \* position of each execute() call
    req,              \* kwargs of each call
    prep,             \* locals of _prepare_container_files: temp_dir, loop index
    temp_dir,         \* execute's local temp_dir
    container,        \* execute's local container
    result,           \* execute's local result (what container.wait returned)
    stdout,           \* execute's local stdout
    stderr,           \* execute's local stderr
    downloaded_files, \* execute's local downloaded_files
    dl,               \* position of the download loop
    response,         \* execute's local response
    exc,              \* the exception in flight, None when there is none
    ret,              \* what execute returned (before json.dumps)
    fs,               \* host file system: the temporary directories that exist
    containers,       \* the docker daemon's containers
    faults,           \* history: the steps of each call that failed
    ops,              \* history: the operations each call issued, in order
    ipc,              \* position of each constructor's _ensure_base_image()
    image,            \* image store: does python-sandbox:latest exist
    builds,           \* history: completed builds of python-sandbox:latest
    late,             \* history: invocations that started when the image existed
    bdirs,            \* host file system: the build directories that exist
    uploads,          \* host file system: the entries of ./uploads
    resolved,         \* the last resolve_upload_path call: its reference, its
                      \* outcome and the entries of ./uploads it ran on
    epc,              \* position of each EnhancedDockerCodeTool.execute() call
    ereq,             \* kwargs of each such call
    econtainer,       \* its local container
    eexc,             \* its exception in flight, None when there is none
    eret,             \* what it is returning or has returned
    eup,              \* position of its upload loop
    edl,              \* position of its download loop
    downloads,        \* host file system: the files of ./downloads, each with
                      \* the calls that wrote it, in order
    cleaning,         \* position of cleanup() and the containers it has yet
                      \* to visit
    spc,              \* position of DocumentationScraperTool.execute
    sreq,             \* its kwargs base_url and max_depth
    site,             \* the web: the same-host links of each page
    processed_urls,   \* self.processed_urls
    toc_entries,      \* self.toc_entries: url and depth of each page saved
    fetches,          \* history: the urls fetched, in order, and whether
                      \* the fetch gave a response
    stack             \* the frames of scrape_page, innermost last

execVars == <<pc, req, prep, temp_dir, container, result, stdout, stderr,
              downloaded_files, dl, response, exc, ret, fs, containers,
              faults, ops>>
imageVars == <<ipc, image, builds, late, bdirs>>
execLocals == <<pc, req, prep, temp_dir, container, result, stdout, stderr,
                downloaded_files, dl, response, exc, ret, fs, faults, ops>>
enhLocals == <<epc, ereq, econtainer, eexc, eret, eup, edl, downloads, cleaning>>
enhVars == <<uploads, resolved, enhLocals>>
scrapeVars == <<spc, sreq, site, processed_urls, toc_entries, fetches, stack>>
vars == <<execVars, imageVars, enhVars, scrapeVars>>

----------------------------------------------------------------------------
(* Bounds of the model.                                                    *)

MaxUploads == 1
MaxDownloads == 1
NumInstances == 2
\* The block size of the tar format, 512 in the format, scaled down.
TarBlock == 4
\* The largest max_depth asked for.
MaxDepth == 3

----------------------------------------------------------------------------
(* Python values.                                                          *)

None == <<"None">>

Range(s) == {s[i] : i \in 1..Len(s)}

\* The printable ASCII characters, code 32 first; the quote characters, the
\* backslash and the backtick are spelled out.
Printable ==
    <<" ", "!", "dquote", "#", "$", "%", "&", "squote", "(", ")", "*", "+", ",", "-", ".", "/",
      "0", "1", "2", "3", "4", "5", "6", "7", "8", "9", ":", ";", "<", "=", ">", "?",
      "@", "A", "B", "C", "D", "E", "F", "G", "H", "I", "J", "K", "L", "M", "N", "O",
      "P", "Q", "R", "S", "T", "U", "V", "W", "X", "Y", "Z", "[", "bslash", "]", "^", "_",
      "btick", "a", "b", "c", "d", "e", "f", "g", "h", "i", "j", "k", "l", "m", "n", "o",
      "p", "q", "r", "s", "t", "u", "v", "w", "x", "y", "z", "{", "|", "}", "~">>

\* chr() and ord() on ASCII.
Chr(b) == IF b = 10 THEN "\n" ELSE Printable[b - 31]
Ord(ch) == IF ch = "\n" THEN 10
           ELSE 31 + CHOOSE k \in 1..Len(Printable) : Printable[k] = ch

IsAscii(b) == b = 10 \/ (b >= 32 /\ b <= 126)

\* bytes.decode(utf-8) on the bytes of the model: ASCII decodes to itself,
\* any other byte of the model (0xFF, NUL and control bytes are not used in
\* text) raises UnicodeDecodeError.
Utf8Valid(bs) == \A k \in 1..Len(bs) : IsAscii(bs[k])
Utf8Decode(bs) == [k \in 1..Len(bs) |-> Chr(bs[k])]
\* str.encode(utf-8) on ASCII text (Path.write_text).
Utf8Encode(s) == [k \in 1..Len(s) |-> Ord(s[k])]

\* str(n) for a natural number n.
RECURSIVE ToStr(_)
ToStr(n) == IF n < 10 THEN <<Chr(48 + n)>>
            ELSE ToStr(n \div 10) \o <<Chr(48 + (n % 10))>>

\* s.find(sub): the first index (from 1) where sub occurs in s, 0 if none.
OccursAt(sub, s, k) ==
    /\ k + Len(sub) - 1 <= Len(s)
    /\ \A j \in 1..Len(sub) : s[k + j - 1] = sub[j]
Find(sub, s) ==
    IF \E k \in 1..Len(s) : OccursAt(sub, s, k)
    THEN CHOOSE k \in 1..Len(s) :
             OccursAt(sub, s, k) /\ \A m \in 1..(k - 1) : ~OccursAt(sub, s, m)
    ELSE 0
Contains(sub, s) == Find(sub, s) # 0

\* s.split(sep)[1]: the text between the first and the second occurrence
\* of sep (to the end when there is no second one); needs sep in s.
SplitSecond(sep, s) ==
    LET first == Find(sep, s)
        rest  == SubSeq(s, first + Len(sep), Len(s))
        nxt   == Find(sep, rest)
    IN  IF nxt = 0 THEN rest ELSE SubSeq(rest, 1, nxt - 1)

\* os.path.basename(p): what follows the last "/".
RECURSIVE Basename(_)
Basename(p) ==
    IF \E k \in 1..Len(p) : p[k] = "/"
    THEN Basename(SubSeq(p, 1 + (CHOOSE k \in 1..Len(p) : p[k] = "/"), Len(p)))
    ELSE p

----------------------------------------------------------------------------
(* base64.                                                                 *)

B64Alphabet ==
    <<"A", "B", "C", "D", "E", "F", "G", "H", "I", "J", "K", "L", "M", "N", "O", "P",
      "Q", "R", "S", "T", "U", "V", "W", "X", "Y", "Z", "a", "b", "c", "d", "e", "f",
      "g", "h", "i", "j", "k", "l", "m", "n", "o", "p", "q", "r", "s", "t", "u", "v",
      "w", "x", "y", "z", "0", "1", "2", "3", "4", "5", "6", "7", "8", "9", "+", "/">>

B64Char(v) == B64Alphabet[v + 1]
IsB64Char(ch) == \E k \in 1..Len(B64Alphabet) : B64Alphabet[k] = ch
B64Val(ch) == (CHOOSE k \in 1..Len(B64Alphabet) : B64Alphabet[k] = ch) - 1

\* base64.b64encode(bs).decode(utf-8)
RECURSIVE B64Encode(_)
B64Encode(bs) ==
    IF Len(bs) = 0 THEN <<>>
    ELSE IF Len(bs) = 1 THEN
        <<B64Char(bs[1] \div 4), B64Char((bs[1] % 4) * 16), "=", "=">>
    ELSE IF Len(bs) = 2 THEN
        <<B64Char(bs[1] \div 4),
          B64Char((bs[1] % 4) * 16 + bs[2] \div 16),
          B64Char((bs[2] % 16) * 4), "=">>
    ELSE
        <<B64Char(bs[1] \div 4),
          B64Char((bs[1] % 4) * 16 + bs[2] \div 16),
          B64Char((bs[2] % 16) * 4 + bs[3] \div 64),
          B64Char(bs[3] % 64)>> \o B64Encode(SubSeq(bs, 4, Len(bs)))

\* base64.b64decode(s) (binascii.a2b_base64, not strict): characters outside
\* the alphabet are skipped, a completed pad sequence ends the input, and
\* an incomplete last quad raises binascii.Error.
\* q: position in the quad, left: bits carried over, pads: pads seen.
RECURSIVE A2B(_, _, _, _, _, _)
A2B(s, k, q, left, pads, out) ==
    IF k > Len(s) THEN [ok |-> q = 0, bytes |-> out]
    ELSE IF s[k] = "=" THEN
        IF q >= 2 /\ q + pads + 1 >= 4 THEN [ok |-> TRUE, bytes |-> out]
        ELSE A2B(s, k + 1, q, left, pads + 1, out)
    ELSE IF ~IsB64Char(s[k]) THEN A2B(s, k + 1, q, left, pads, out)
    ELSE LET v == B64Val(s[k]) IN
        CASE q = 0 -> A2B(s, k + 1, 1, v, 0, out)
          [] q = 1 -> A2B(s, k + 1, 2, v % 16, 0, Append(out, left * 4 + v \div 16))
          [] q = 2 -> A2B(s, k + 1, 3, v % 4, 0, Append(out, left * 16 + v \div 4))
          [] OTHER -> A2B(s, k + 1, 0, 0, 0, Append(out, left * 64 + v))
B64Decode(s) == A2B(s, 1, 0, 0, 0, <<>>)

\* The marker ";base64," that tags base64 content.
Base64Marker == <<";", "b", "a", "s", "e", "6", "4", ",">>

\* f"data:application/octet-stream;base64,{payload}"
DataUriPrefix ==
    <<"d", "a", "t", "a", ":", "a", "p", "p", "l", "i", "c", "a", "t", "i", "o", "n",
      "/", "o", "c", "t", "e", "t", "-", "s", "t", "r", "e", "a", "m">> \o Base64Marker
DataUri(payload) == DataUriPrefix \o payload

----------------------------------------------------------------------------
(* The tar stream container.get_archive returns for one regular file: a    *)
(* header block naming the member and its size, the data padded with zero  *)
(* bytes to whole blocks, and two zero blocks that end the archive.        *)

Zeros(n) == [k \in 1..n |-> 0]
PadTo(bs, n) == bs \o Zeros((n - (Len(bs) % n)) % n)
TarHeader(name, size) ==
    LET nm == Utf8Encode(name)
    IN  SubSeq(nm \o Zeros(TarBlock), 1, TarBlock - 1) \o <<size>>
TarArchive(name, data) ==
    TarHeader(name, Len(data)) \o PadTo(data, TarBlock) \o Zeros(2 * TarBlock)

----------------------------------------------------------------------------
(* The requests and the environment's behaviours the model draws from.     *)

CallIds == {1, 2}

\* The pages of the documentation site and the links its pages may hold.
Urls == {"A", "B", "C", "D"}
Links == {<<"A", "B">>, <<"A", "C">>, <<"B", "C">>, <<"C", "D">>,
          <<"B", "A">>, <<"C", "C">>, <<"D", "B">>}
Sites == {[u \in Urls |-> {l[2] : l \in {m \in ls : m[1] = u}}] : ls \in SUBSET Links}

\* Sequences over S of length at most n.
SeqUpTo(S, n) == UNION {[1..k -> S] : k \in 0..n}

UserCode == <<"p", "a", "s", "s">>
\* The text of setup_code, lines 111-119, abridged to its last line.
SetupCode == <<"\n", "i", "n", "s", "t", "a", "l", "l", "(", ")", "\n">>

MainPy == <<"m", "a", "i", "n", ".", "p", "y">>
RequirementsTxt ==
    <<"r", "e", "q", "u", "i", "r", "e", "m", "e", "n", "t", "s", ".", "t", "x", "t">>

PathChoices == {<<"a">>, <<"d", "/", "a">>, MainPy}
ByteStrings == {<<255, 0, 16>>}
ContentChoices ==
    {<<"d", "a", "t", "a", ":">> \o Base64Marker \o B64Encode(b) : b \in ByteStrings}
    \cup {<<"d", "a", "t", "a", ":">> \o Base64Marker \o <<"T">>,   \* cannot be decoded
          <<"h", "i">>}                                             \* plain text
UploadChoices == [container_path : PathChoices, content : ContentChoices]
RequirementChoices == {<<>>, <<<<"r", "q">>>>}
EnvChoices == {<<>>}

Requests ==
    [code : {UserCode},
     env_vars : EnvChoices,
     upload_files : SeqUpTo(UploadChoices, MaxUploads),
     download_paths : SeqUpTo(PathChoices, MaxDownloads),
     requirements : RequirementChoices]

NoRequest ==
    [code |-> None, env_vars |-> <<>>, upload_files |-> <<>>,
     download_paths |-> <<>>, requirements |-> <<>>]

\* What the user's code does once it runs: the exit status of the
\* interpreter (1 is an uncaught exception), what it writes to stdout and to
\* stderr, and whether it writes the file /code/a.
OkOut == <<111, 107, 10>>
ProcessRuns ==
    [code : {0, 1, 137},
     out : {OkOut, <<255>>},
     err : {<<69>>},
     writes : BOOLEAN,
     user : {TRUE}]
ProcessWrote == <<33>>

\* The messages of the exceptions the libraries raise.
MkdtempError  == <<"[Errno 28] No space left on device">>
WriteError    == <<"[Errno 5] Input/output error">>
PaddingError  == <<"Incorrect padding">>
CreateError   == <<"500 Server Error: could not create container">>
StartError    == <<"500 Server Error: could not start container">>
ReadTimeout   == <<"Read timed out. (read timeout=30)">>
WaitError     == <<"500 Server Error: wait failed">>
LogsError     == <<"500 Server Error: logs failed">>
DecodeError   == <<"utf-8 codec cannot decode byte 0xff">>
NotFoundError == <<"404 Client Error: Not Found">>
ArchiveError  == <<"500 Server Error: archive failed">>
RemoveError   == <<"500 Server Error: removal failed">>

\* The names mkdtemp and the daemon make up are only ever compared for
\* equality: the model takes one name that was never used.
Fresh(S) == CHOOSE x \in S : TRUE
DirNames == {<<"dockertool-run-1">>, <<"dockertool-run-2">>}
ContainerIds == {<<"container-1">>, <<"container-2">>}

NoResponse ==
    [success |-> FALSE, stdout |-> None, stderr |-> None, error |-> None,
     downloaded_files |-> <<>>]

\* Function update: f with key k set to v.
Put(f, k, v) == [x \in DOMAIN f \cup {k} |-> IF x = k THEN v ELSE f[x]]
Drop(f, k) == [x \in DOMAIN f \ {k} |-> f[x]]

----------------------------------------------------------------------------
(* DockerCodeTool.execute, one action per step of a call c.                *)

Init ==
    /\ pc = [c \in CallIds |-> "idle"]
    /\ req = [c \in CallIds |-> NoRequest]
    /\ prep = [c \in CallIds |-> [temp_dir |-> None, i |-> 1]]
    /\ temp_dir = [c \in CallIds |-> None]
    /\ container = [c \in CallIds |-> None]
    /\ result = [c \in CallIds |-> -1]
    /\ stdout = [c \in CallIds |-> None]
    /\ stderr = [c \in CallIds |-> None]
    /\ downloaded_files = [c \in CallIds |-> <<>>]
    /\ dl = [c \in CallIds |-> 1]
    /\ response = [c \in CallIds |-> NoResponse]
    /\ exc = [c \in CallIds |-> None]
    /\ ret = [c \in CallIds |-> NoResponse]
    /\ fs = <<>>
    /\ containers = <<>>
    /\ faults = [c \in CallIds |-> {}]
    /\ ops = [c \in CallIds |-> <<>>]
    /\ ipc = [n \in 1..NumInstances |-> "new"]
    /\ image = FALSE
    /\ builds = 0
    /\ late = {}
    /\ bdirs = {}
    /\ uploads = {}
    /\ resolved = [file_path |-> None, path |-> None, listing |-> {}]
    /\ epc = [e \in CallIds |-> "idle"]
    /\ ereq = [e \in CallIds |-> NoRequest]
    /\ econtainer = [e \in CallIds |-> None]
    /\ eexc = [e \in CallIds |-> None]
    /\ eret = [e \in CallIds |-> None]
    /\ eup = [e \in CallIds |-> 1]
    /\ edl = [e \in CallIds |-> 1]
    /\ downloads = <<>>
    /\ cleaning = [pc |-> "idle", todo |-> {}]
    /\ spc = "idle"
    /\ sreq = [base_url |-> "A", max_depth |-> 1]
    /\ site = [u \in Urls |-> {}]
    /\ processed_urls = {}
    /\ toc_entries = <<>>
    /\ fetches = <<>>
    /\ stack = <<>>

Goto(c, label) == pc' = [pc EXCEPT ![c] = label]
Issue(c, op, on) == ops' = [ops EXCEPT ![c] = Append(@, [op |-> op, on |-> on])]
\* What the operations named op were issued on, by any call.
Issued(op) ==
    UNION {{ops[c][i].on : i \in {j \in 1..Len(ops[c]) : ops[c][j].op = op}} : c \in CallIds}
Fault(c, step) == faults' = [faults EXCEPT ![c] = @ \cup step]
\* raise: the exception e is in flight and control moves to label.
Raise(c, e, label) == exc' = [exc EXCEPT ![c] = e] /\ Goto(c, label)

\* execute(**kwargs), lines 143-150: the call starts with its arguments.
Call(c, r) ==
    /\ pc[c] = "idle"
    /\ UNCHANGED <<imageVars, enhVars, scrapeVars>>
    /\ req' = [req EXCEPT ![c] = r]
    /\ Goto(c, "mkdtemp")
    /\ UNCHANGED <<prep, temp_dir, container, result, stdout, stderr,
                   downloaded_files, dl, response, exc, ret, fs, containers,
                   faults, ops>>

\* Mkdtemp, had the tool staged every call into one directory of a fixed
\* name.
MkdtempShared(c) ==
    /\ pc[c] = "mkdtemp"
    /\ UNCHANGED <<imageVars, enhVars, scrapeVars>>
    /\ \/ \E d \in {Fresh(DirNames)} :
            /\ prep' = [prep EXCEPT ![c] = [temp_dir |-> d, i |-> 1]]
            /\ fs' = Put(fs, d, <<>>)
            /\ Issue(c, "stage", d)
            /\ Goto(c, "write_script")
            /\ UNCHANGED <<exc, faults>>
       \/ /\ Raise(c, MkdtempError, "except")
          /\ Fault(c, {"staging"})
          /\ Issue(c, "stage", None)
          /\ UNCHANGED <<prep, fs>>
    /\ UNCHANGED <<req, temp_dir, container, result, stdout, stderr,
                   downloaded_files, dl, response, ret, containers>>

\* _prepare_container_files, line 103: tempfile.mkdtemp.
Mkdtemp(c) ==
    /\ pc[c] = "mkdtemp"
    /\ UNCHANGED <<imageVars, enhVars, scrapeVars>>
    /\ \/ \E d \in {Fresh(DirNames \ Issued("stage"))} :
            /\ prep' = [prep EXCEPT ![c] = [temp_dir |-> d, i |-> 1]]
            /\ fs' = Put(fs, d, <<>>)
            /\ Issue(c, "stage", d)
            /\ Goto(c, "write_script")
            /\ UNCHANGED <<exc, faults>>
       \/ /\ Raise(c, MkdtempError, "except")
          /\ Fault(c, {"staging"})
          /\ Issue(c, "stage", None)
          /\ UNCHANGED <<prep, fs>>
    /\ UNCHANGED <<req, temp_dir, container, result, stdout, stderr,
                   downloaded_files, dl, response, ret, containers>>

\* "\n".join(requirements)
RECURSIVE Join(_)
Join(rs) == IF Len(rs) = 0 THEN <<>>
            ELSE IF Len(rs) = 1 THEN rs[1]
            ELSE rs[1] \o <<"\n">> \o Join(Tail(rs))

\* The text written to main.py, lines 109-122.
MainScript(r) ==
    (IF Len(r.requirements) > 0 THEN SetupCode ELSE <<>>) \o r.code

\* _prepare_container_files, lines 106-127: main.py and requirements.txt.
WriteScript(c) ==
    LET d == prep[c].temp_dir
        r == req[c]
        withMain == Put(fs[d], MainPy, Utf8Encode(MainScript(r)))
        withReqs == IF Len(r.requirements) > 0
                    THEN Put(withMain, RequirementsTxt, Utf8Encode(Join(r.requirements)))
                    ELSE withMain
    IN  /\ pc[c] = "write_script"
        /\ UNCHANGED <<imageVars, enhVars, scrapeVars>>
        /\ \/ /\ fs' = Put(fs, d, withReqs)
              /\ Goto(c, "uploads")
              /\ UNCHANGED <<exc, faults>>
           \/ /\ fs' \in {fs, Put(fs, d, withMain)}   \* a write raised OSError
              /\ Raise(c, WriteError, "except")
              /\ Fault(c, {"staging"})
        /\ UNCHANGED <<req, prep, temp_dir, container, result, stdout, stderr,
                       downloaded_files, dl, response, ret, containers, ops>>

\* What lines 134-139 write for one upload: [ok, bytes].
UploadBytes(content) ==
    IF Contains(Base64Marker, content)
    THEN B64Decode(SplitSecond(Base64Marker, content))
    ELSE [ok |-> TRUE, bytes |-> Utf8Encode(content)]

\* WriteUpload, had an upload that cannot be decoded or written been
\* skipped and the staging gone on.
WriteUploadSkip(c) ==
    LET d    == prep[c].temp_dir
        spec == req[c].upload_files[prep[c].i]
        name == Basename(spec.container_path)
        data == UploadBytes(spec.content)
    IN  /\ pc[c] = "uploads"
        /\ UNCHANGED <<imageVars, enhVars, scrapeVars>>
        /\ prep[c].i <= Len(req[c].upload_files)
        /\ \/ /\ data.ok
              /\ fs' = Put(fs, d, Put(fs[d], name, data.bytes))
              /\ UNCHANGED faults
           \/ /\ Fault(c, {"staging"})
              /\ UNCHANGED fs
        /\ prep' = [prep EXCEPT ![c].i = @ + 1]
        /\ UNCHANGED <<pc, exc>>
        /\ UNCHANGED <<req, temp_dir, container, result, stdout, stderr,
                       downloaded_files, dl, response, ret, containers, ops>>

\* _prepare_container_files, lines 130-139: one round of the upload loop.
WriteUpload(c) ==
    LET d    == prep[c].temp_dir
        spec == req[c].upload_files[prep[c].i]
        name == Basename(spec.container_path)
        data == UploadBytes(spec.content)
    IN  /\ pc[c] = "uploads"
        /\ UNCHANGED <<imageVars, enhVars, scrapeVars>>
        /\ prep[c].i <= Len(req[c].upload_files)
        /\ \/ /\ data.ok
              /\ fs' = Put(fs, d, Put(fs[d], name, data.bytes))
              /\ prep' = [prep EXCEPT ![c].i = @ + 1]
              /\ UNCHANGED <<pc, exc, faults>>
           \/ /\ ~data.ok
              /\ Raise(c, PaddingError, "except")
              /\ Fault(c, {"staging"})
              /\ UNCHANGED <<fs, prep>>
           \/ /\ data.ok
              /\ Raise(c, WriteError, "except")
              /\ Fault(c, {"staging"})
              /\ UNCHANGED <<fs, prep>>
        /\ UNCHANGED <<req, temp_dir, container, result, stdout, stderr,
                       downloaded_files, dl, response, ret, containers, ops>>

\* Lines 141 and 153: _prepare_container_files returns and execute binds
\* temp_dir.
PrepareReturn(c) ==
    /\ pc[c] = "uploads"
    /\ UNCHANGED <<imageVars, enhVars, scrapeVars>>
    /\ prep[c].i > Len(req[c].upload_files)
    /\ temp_dir' = [temp_dir EXCEPT ![c] = prep[c].temp_dir]
    /\ Goto(c, "create")
    /\ UNCHANGED <<req, prep, container, result, stdout, stderr,
                   downloaded_files, dl, response, exc, ret, fs, containers,
                   faults, ops>>

\* The container lines 156-172 ask for.
NewContainer(c) ==
    [owner |-> c,
     image |-> "python-sandbox:latest",
     command |-> <<"python", "/code/main.py">>,
     volume |-> temp_dir[c], bind |-> "/code", mode |-> "rw",
     environment |-> req[c].env_vars,
     mem_limit |-> "512m", memswap_limit |-> "512m",
     cpu_period |-> 100000, cpu_quota |-> 50000,
     network_disabled |-> TRUE, user |-> "nobody",
     status |-> "created", exit |-> -1, out |-> <<>>, err |-> <<>>, wrote |-> {},
     pip |-> "none", ran_user |-> FALSE, auto_remove |-> FALSE]

\* Lines 156-172: client.containers.create.
Create(c) ==
    /\ pc[c] = "create"
    /\ UNCHANGED <<imageVars, enhVars, scrapeVars>>
    /\ \/ \E k \in {Fresh(ContainerIds \ Issued("create"))} :
            /\ containers' = Put(containers, k, NewContainer(c))
            /\ container' = [container EXCEPT ![c] = k]
            /\ Issue(c, "create", k)
            /\ Goto(c, "start")
            /\ UNCHANGED <<exc, faults>>
       \/ /\ Raise(c, CreateError, "except")
          /\ Fault(c, {"create"})
          /\ Issue(c, "create", None)
          /\ UNCHANGED <<containers, container>>
    /\ UNCHANGED <<req, prep, temp_dir, result, stdout, stderr,
                   downloaded_files, dl, response, ret, fs>>

\* Start, had container.start() been written before the try: a failed
\* start goes to the handler past the finally clause.
StartBeforeTry(c) ==
    LET k == container[c]
    IN  /\ pc[c] = "start"
        /\ UNCHANGED <<imageVars, enhVars, scrapeVars>>
        /\ Issue(c, "start", k)
        /\ \/ /\ containers' = [containers EXCEPT ![k].status = "running"]
              /\ Goto(c, "wait")
              /\ UNCHANGED <<exc, faults>>
           \/ /\ Raise(c, StartError, "except")
              /\ Fault(c, {"start"})
              /\ UNCHANGED containers
        /\ UNCHANGED <<req, prep, temp_dir, container, result, stdout, stderr,
                       downloaded_files, dl, response, ret, fs>>

\* Line 176: container.start, inside the try whose finally removes the
\* container.
Start(c) ==
    LET k == container[c]
    IN  /\ pc[c] = "start"
        /\ UNCHANGED <<imageVars, enhVars, scrapeVars>>
        /\ Issue(c, "start", k)
        /\ \/ /\ containers' = [containers EXCEPT ![k].status = "running"]
              /\ Goto(c, "wait")
              /\ UNCHANGED <<exc, faults>>
           \/ /\ Raise(c, StartError, "remove")
              /\ Fault(c, {"start"})
              /\ UNCHANGED containers
        /\ UNCHANGED <<req, prep, temp_dir, container, result, stdout, stderr,
                       downloaded_files, dl, response, ret, fs>>

\* What python /code/main.py can do, given the bytes of main.py. Under the
\* preamble of lines 111-119 the installation runs first: when pip fails,
\* subprocess.check_call raises CalledProcessError, which nothing in the
\* script catches, so the interpreter prints the traceback and exits with
\* status 1 before the first line of the user's code.
ScriptRuns(script) ==
    LET preamble == Utf8Encode(SetupCode)
        installFailed == [code |-> 1, out |-> <<>>, err |-> <<69>>,
                          writes |-> FALSE, user |-> FALSE]
    IN  IF Len(script) >= Len(preamble)
               /\ SubSeq(script, 1, Len(preamble)) = preamble
        THEN [runs |-> ProcessRuns \cup {installFailed}, pip |-> TRUE]
        ELSE [runs |-> ProcessRuns, pip |-> FALSE]

\* Line 177: container.wait(timeout=30). The process runs; either it exits
\* within the 30 seconds, or the wait times out with the process still
\* running, or the call to the daemon fails.
Wait(c) ==
    LET k == container[c]
        d == containers[k].volume
        script == ScriptRuns(IF d \in DOMAIN fs /\ MainPy \in DOMAIN fs[d]
                             THEN fs[d][MainPy] ELSE <<>>)
        ran(run, st, code) ==
            /\ containers' = [containers EXCEPT ![k].status = st, ![k].exit = code,
                                                ![k].out = run.out, ![k].err = run.err,
                                                ![k].wrote = IF run.writes THEN {<<"a">>} ELSE {},
                                                ![k].pip = IF ~script.pip THEN "none"
                                                           ELSE IF run.user THEN "ok"
                                                           ELSE "failed",
                                                ![k].ran_user = run.user]
            /\ fs' = IF run.writes /\ d \in DOMAIN fs
                     THEN Put(fs, d, Put(fs[d], <<"a">>, ProcessWrote))
                     ELSE fs
    IN  /\ pc[c] = "wait"
        /\ UNCHANGED <<imageVars, enhVars, scrapeVars>>
        /\ Issue(c, "wait", k)
        /\ \/ \E run \in script.runs :
                /\ ran(run, "exited", run.code)
                /\ result' = [result EXCEPT ![c] = run.code]
                /\ Goto(c, "logs")
                /\ UNCHANGED <<exc, faults>>
           \/ \E run \in script.runs :
                /\ run.code = 0
                /\ ran(run, "running", -1)
                /\ Raise(c, ReadTimeout, "remove")
                /\ Fault(c, {"wait", "timeout"})
                /\ UNCHANGED result
           \/ /\ Raise(c, WaitError, "remove")
              /\ Fault(c, {"wait"})
              /\ UNCHANGED <<containers, fs, result>>
        /\ UNCHANGED <<req, prep, temp_dir, container, stdout, stderr,
                       downloaded_files, dl, response, ret>>

\* Lines 180-184: container.logs for each channel, decoded, and the empty
\* downloaded_files.
ReadLogs(c) ==
    LET k == container[c]
        valid == Utf8Valid(containers[k].out) /\ Utf8Valid(containers[k].err)
    IN  /\ pc[c] = "logs"
        /\ UNCHANGED <<imageVars, enhVars, scrapeVars>>
        /\ Issue(c, "logs", k)
        /\ \/ /\ valid
              /\ stdout' = [stdout EXCEPT ![c] = Utf8Decode(containers[k].out)]
              /\ stderr' = [stderr EXCEPT ![c] = Utf8Decode(containers[k].err)]
              /\ downloaded_files' = [downloaded_files EXCEPT ![c] = <<>>]
              /\ Goto(c, "download")
              /\ UNCHANGED <<exc, faults>>
           \/ /\ ~valid
              /\ Raise(c, DecodeError, "remove")
              /\ Fault(c, {"decode"})
              /\ UNCHANGED <<stdout, stderr, downloaded_files>>
           \/ /\ Raise(c, LogsError, "remove")
              /\ Fault(c, {"logs"})
              /\ UNCHANGED <<stdout, stderr, downloaded_files>>
        /\ UNCHANGED <<req, prep, temp_dir, container, result, dl, response,
                       ret, fs, containers>>

ErrorDownloading == <<"Error downloading: ">>

\* Lines 187-189: the entry of a path whose archive was retrieved.
Downloaded(name, data) == DataUri(B64Encode(TarArchive(name, data)))

\* Lines 185-191: one round of the download loop.
Download(c) ==
    LET k     == container[c]
        d     == containers[k].volume
        path  == req[c].download_paths[dl[c]]
        name  == Basename(path)
        there == d \in DOMAIN fs /\ name \in DOMAIN fs[d]
        set(v) == downloaded_files' = [downloaded_files EXCEPT ![c] = Put(@, path, v)]
    IN  /\ pc[c] = "download"
        /\ UNCHANGED <<imageVars, enhVars, scrapeVars>>
        /\ dl[c] <= Len(req[c].download_paths)
        /\ Issue(c, "collect", k)
        /\ \/ /\ there
              /\ set(Downloaded(name, fs[d][name]))
              /\ UNCHANGED faults
           \/ /\ ~there
              /\ set(ErrorDownloading \o NotFoundError)
              /\ Fault(c, {"download"})
           \/ /\ set(ErrorDownloading \o ArchiveError)
              /\ Fault(c, {"download"})
        /\ dl' = [dl EXCEPT ![c] = @ + 1]
        /\ UNCHANGED <<pc, req, prep, temp_dir, container, result, stdout, stderr,
                       response, exc, ret, fs, containers>>

ExitCodeText == <<"Exit code: ">>

\* Response, had the error text been built from the exit code whatever
\* its value.
ResponseErrorAlways(code, out, err, files) ==
    [success |-> code = 0,
     stdout |-> out,
     stderr |-> err,
     error |-> ExitCodeText \o ToStr(code),
     downloaded_files |-> files]

\* Lines 193-199: the response of a run that completed.
Response(code, out, err, files) ==
    [success |-> code = 0,
     stdout |-> out,
     stderr |-> err,
     error |-> IF code = 0 THEN None ELSE ExitCodeText \o ToStr(code),
     downloaded_files |-> files]

\* Respond, had the logs been read again once the artifacts were
\* collected.
RespondReadsLogs(c) ==
    /\ pc[c] = "download"
    /\ UNCHANGED <<imageVars, enhVars, scrapeVars>>
    /\ dl[c] > Len(req[c].download_paths)
    /\ Issue(c, "logs", container[c])
    /\ response' = [response EXCEPT ![c] =
                        Response(result[c], stdout[c], stderr[c], downloaded_files[c])]
    /\ Goto(c, "remove")
    /\ UNCHANGED <<req, prep, temp_dir, container, result, stdout, stderr,
                   downloaded_files, dl, exc, ret, fs, containers, faults>>

Respond(c) ==
    /\ pc[c] = "download"
    /\ UNCHANGED <<imageVars, enhVars, scrapeVars>>
    /\ dl[c] > Len(req[c].download_paths)
    /\ response' = [response EXCEPT ![c] =
                        Response(result[c], stdout[c], stderr[c], downloaded_files[c])]
    /\ Goto(c, "remove")
    /\ UNCHANGED <<req, prep, temp_dir, container, result, stdout, stderr,
                   downloaded_files, dl, exc, ret, fs, containers, faults, ops>>

\* Lines 201-205: the finally clause removes the container; then the
\* response is returned, or the exception in flight goes on to the handler.
\* An exception raised by the removal replaces the one in flight.
Remove(c) ==
    LET k == container[c]
    IN  /\ pc[c] = "remove"
        /\ UNCHANGED <<imageVars, enhVars, scrapeVars>>
        /\ Issue(c, "remove_force", k)
        /\ \/ /\ containers' = [containers EXCEPT ![k].status = "removed"]
              /\ IF exc[c] = None
                 THEN ret' = [ret EXCEPT ![c] = response[c]] /\ Goto(c, "rmtree")
                 ELSE UNCHANGED ret /\ Goto(c, "except")
              /\ UNCHANGED <<exc, faults>>
           \/ /\ Raise(c, RemoveError, "except")
              /\ Fault(c, {"remove"})
              /\ UNCHANGED <<containers, ret>>
        /\ UNCHANGED <<req, prep, temp_dir, container, result, stdout, stderr,
                       downloaded_files, dl, response, fs>>

ToolFailedText == <<"Tool execution failed: ">>

\* Lines 209-215: the result the handler builds from the exception e.
Failure(e) ==
    [success |-> FALSE,
     error |-> ToolFailedText \o e,
     stdout |-> <<>>,
     stderr |-> e,
     downloaded_files |-> <<>>]

\* Except, had the handler been written for docker.errors.DockerException
\* only: the errors of staging are not handled.
ExceptDockerOnly(c) ==
    /\ pc[c] = "except"
    /\ UNCHANGED <<imageVars, enhVars, scrapeVars>>
    /\ IF exc[c] \in {MkdtempError, WriteError, PaddingError, DecodeError}
       THEN UNCHANGED <<ret, exc>>
       ELSE /\ ret' = [ret EXCEPT ![c] = Failure(exc[c])]
            /\ exc' = [exc EXCEPT ![c] = None]
    /\ Goto(c, "rmtree")
    /\ UNCHANGED <<req, prep, temp_dir, container, result, stdout, stderr,
                   downloaded_files, dl, response, fs, containers, faults, ops>>

\* Lines 207-215: except Exception.
Except(c) ==
    /\ pc[c] = "except"
    /\ UNCHANGED <<imageVars, enhVars, scrapeVars>>
    /\ ret' = [ret EXCEPT ![c] = Failure(exc[c])]
    /\ exc' = [exc EXCEPT ![c] = None]
    /\ Goto(c, "rmtree")
    /\ UNCHANGED <<req, prep, temp_dir, container, result, stdout, stderr,
                   downloaded_files, dl, response, fs, containers, faults, ops>>

\* Lines 216-219: the outer finally clause; shutil.rmtree with
\* ignore_errors=True removes the directory or fails without raising. The
\* call then returns, or raises the exception no handler took.
Rmtree(c) ==
    /\ pc[c] = "rmtree"
    /\ UNCHANGED <<imageVars, enhVars, scrapeVars>>
    /\ IF temp_dir[c] = None
       THEN UNCHANGED <<fs, faults, ops>>
       ELSE /\ Issue(c, "rmtree", temp_dir[c])
            /\ \/ fs' = Drop(fs, temp_dir[c]) /\ UNCHANGED faults
               \/ UNCHANGED fs /\ Fault(c, {"rmtree"})
    /\ Goto(c, IF exc[c] = None THEN "returned" ELSE "raised")
    /\ UNCHANGED <<req, prep, temp_dir, container, result, stdout, stderr,
                   downloaded_files, dl, response, exc, ret, containers>>

Execute(c) ==
    \/ \E r \in Requests : Call(c, r)
    \/ Mkdtemp(c)
    \/ WriteScript(c)
    \/ WriteUpload(c)
    \/ PrepareReturn(c)
    \/ Create(c)
    \/ Start(c)
    \/ Wait(c)
    \/ ReadLogs(c)
    \/ Download(c)
    \/ Respond(c)
    \/ Remove(c)
    \/ Except(c)
    \/ Rmtree(c)

\* One call of execute.
Next == Execute(1)

Spec == Init /\ [][Next]_vars

\* The request of call c when two calls run side by side: each call has its
\* own value of the environment variable K and its own content for the
\* upload a.
ConcRequest(c) ==
    [code |-> UserCode,
     env_vars |-> Put(<<>>, <<"K">>, ToStr(c)),
     upload_files |-> <<[container_path |-> <<"a">>,
                         content |-> IF c = 1 THEN <<"h", "i">> ELSE <<"y", "o">>]>>,
     download_paths |-> <<<<"a">>>>,
     requirements |-> <<>>]

\* Two calls of execute on two threads: any interleaving of their steps.
NextConc ==
    \E c \in CallIds :
        \/ Call(c, ConcRequest(c))
        \/ Mkdtemp(c)
        \/ WriteScript(c)
        \/ WriteUpload(c)
        \/ PrepareReturn(c)
        \/ Create(c)
        \/ Start(c)
        \/ Wait(c)
        \/ ReadLogs(c)
        \/ Download(c)
        \/ Respond(c)
        \/ Remove(c)
        \/ Except(c)
        \/ Rmtree(c)

SpecConc == Init /\ [][NextConc]_vars

----------------------------------------------------------------------------
(* DockerCodeTool.__init__ and _ensure_base_image, one action per step of  *)
(* the constructor of instance n. The instances share the daemon's image   *)
(* store.                                                                  *)

Instances == 1..NumInstances

At(n, label) == ipc' = [ipc EXCEPT ![n] = label]

\* Lines 63-68: the constructor starts and calls _ensure_base_image.
Construct(n) ==
    /\ ipc[n] = "new"
    /\ At(n, "get")
    /\ late' = IF image THEN late \cup {n} ELSE late
    /\ UNCHANGED <<image, builds, bdirs>>
    /\ UNCHANGED <<execVars, enhVars, scrapeVars>>

\* Lines 81-83: client.images.get finds the image, raises ImageNotFound, or
\* raises another error, which nothing handles.
GetImage(n) ==
    /\ ipc[n] = "get"
    /\ \/ image /\ At(n, "done")
       \/ ~image /\ At(n, "mkdtemp")
       \/ At(n, "raised")
    /\ UNCHANGED <<image, builds, late, bdirs>>
    /\ UNCHANGED <<execVars, enhVars, scrapeVars>>

\* Lines 85-86: the build directory.
BuildDir(n) ==
    /\ ipc[n] = "mkdtemp"
    /\ \/ bdirs' = bdirs \cup {n} /\ At(n, "write")
       \/ UNCHANGED bdirs /\ At(n, "raised")
    /\ UNCHANGED <<image, builds, late>>
    /\ UNCHANGED <<execVars, enhVars, scrapeVars>>

\* Lines 89-90: the Dockerfile is written; a failure goes to the finally
\* clause with the exception in flight.
WriteDockerfile(n) ==
    /\ ipc[n] = "write"
    /\ \/ At(n, "build")
       \/ At(n, "cleanup_raise")
    /\ UNCHANGED <<image, builds, late, bdirs>>
    /\ UNCHANGED <<execVars, enhVars, scrapeVars>>

\* Lines 92-96: client.images.build tags python-sandbox:latest, or fails.
Build(n) ==
    /\ ipc[n] = "build"
    /\ \/ /\ image' = TRUE
          /\ builds' = builds + 1
          /\ At(n, "cleanup")
       \/ /\ UNCHANGED <<image, builds>>
          /\ At(n, "cleanup_raise")
    /\ UNCHANGED <<late, bdirs>>
    /\ UNCHANGED <<execVars, enhVars, scrapeVars>>

\* Lines 97-99: shutil.rmtree(ignore_errors=True) removes the build
\* directory or fails without raising; the exception in flight goes on.
BuildCleanup(n) ==
    /\ ipc[n] \in {"cleanup", "cleanup_raise"}
    /\ bdirs' \in {bdirs \ {n}, bdirs}
    /\ At(n, IF ipc[n] = "cleanup" THEN "done" ELSE "raised")
    /\ UNCHANGED <<image, builds, late>>
    /\ UNCHANGED <<execVars, enhVars, scrapeVars>>

NextImage ==
    \E n \in Instances :
        \/ Construct(n)
        \/ GetImage(n)
        \/ BuildDir(n)
        \/ WriteDockerfile(n)
        \/ Build(n)
        \/ BuildCleanup(n)

\* Constructors running concurrently against one image store.
SpecImage == Init /\ [][NextImage]_vars

----------------------------------------------------------------------------
(* EnhancedDockerCodeTool.resolve_upload_path and _find_matching_file.     *)
(* The uploads directory is flat; uploads holds its entries, the entry "."  *)
(* included, so that it is empty exactly when the directory does not exist. *)

\* str.lower() on ASCII.
Lower(s) == [k \in 1..Len(s) |->
                IF Ord(s[k]) >= 65 /\ Ord(s[k]) <= 90 THEN Chr(Ord(s[k]) + 32) ELSE s[k]]

\* Does the name match the glob pattern; * is the only wildcard the
\* patterns of the tool use.
RECURSIVE GlobMatch(_, _)
GlobMatch(pattern, name) ==
    IF pattern = <<>> THEN name = <<>>
    ELSE IF Head(pattern) = "*"
         THEN GlobMatch(Tail(pattern), name)
              \/ (name # <<>> /\ GlobMatch(pattern, Tail(name)))
         ELSE name # <<>> /\ Head(name) = Head(pattern)
              /\ GlobMatch(Tail(pattern), Tail(name))

\* self.uploads_dir.glob(pattern): the files of the directory that match.
Glob(pattern) == {f \in uploads \ {<<".">>} : GlobMatch(pattern, f)}

\* The dict patterns of lines 76-81 in the order its items are visited:
\* each key with each of its patterns.
Patterns ==
    <<[key |-> <<"s", "a", "l", "e", "s">>, pattern |-> <<"*", "s", "a", "l", "e", "s", "*", ".", "c", "s", "v">>],
      [key |-> <<"s", "a", "l", "e", "s">>, pattern |-> <<"*", "r", "e", "v", "e", "n", "u", "e", "*", ".", "c", "s", "v">>],
      [key |-> <<"s", "a", "l", "e", "s">>, pattern |-> <<"*", "o", "r", "d", "e", "r", "s", "*", ".", "c", "s", "v">>],
      [key |-> <<"r", "e", "p", "o", "r", "t">>, pattern |-> <<"*", "r", "e", "p", "o", "r", "t", "*", ".", "p", "d", "f">>],
      [key |-> <<"r", "e", "p", "o", "r", "t">>, pattern |-> <<"*", "r", "e", "p", "o", "r", "t", "*", ".", "x", "l", "s", "x">>],
      [key |-> <<"r", "e", "p", "o", "r", "t">>, pattern |-> <<"*", "r", "e", "p", "o", "r", "t", "*", ".", "c", "s", "v">>],
      [key |-> <<"c", "o", "n", "f", "i", "g">>, pattern |-> <<"*", "c", "o", "n", "f", "i", "g", "*", ".", "j", "s", "o", "n">>],
      [key |-> <<"c", "o", "n", "f", "i", "g">>, pattern |-> <<"*", "s", "e", "t", "t", "i", "n", "g", "s", "*", ".", "j", "s", "o", "n">>],
      [key |-> <<"c", "o", "n", "f", "i", "g">>, pattern |-> <<"*", "c", "o", "n", "f", "*", ".", "y", "a", "m", "l">>],
      [key |-> <<"d", "a", "t", "a">>, pattern |-> <<"*", "d", "a", "t", "a", "*", ".", "c", "s", "v">>],
      [key |-> <<"d", "a", "t", "a">>, pattern |-> <<"*", "d", "a", "t", "a", "*", ".", "j", "s", "o", "n">>],
      [key |-> <<"d", "a", "t", "a">>, pattern |-> <<"*", "d", "a", "t", "a", "s", "e", "t", "*", ".", "c", "s", "v">>]>>

\* _find_matching_file(file_hint): the files it can return, glob yielding
\* the entries of the directory in no particular order; {None} when it
\* returns None.
FindMatchingFile(file_hint) ==
    LET hint_lower == Lower(file_hint)
        exact == {f \in Glob(<<"*">>) : file_hint = f}
        sub == {f \in Glob(<<"*">>) : Contains(hint_lower, Lower(f))}
        hits == {i \in 1..Len(Patterns) :
                    Contains(Patterns[i].key, hint_lower) /\ Glob(Patterns[i].pattern) # {}}
    IN  IF uploads = {} THEN {None}
        ELSE IF exact # {} THEN exact
        ELSE IF sub # {} THEN sub
        ELSE IF hits # {}
             THEN Glob(Patterns[CHOOSE i \in hits : \A j \in hits : i <= j].pattern)
        ELSE {None}

\* The absolute paths that exist on the host.
AbsPaths == {<<"/", "t">>}
UploadsDir == <<"uploads">>
FileNotFound == <<"FileNotFoundError: Could not find file matching">>

\* uploads_dir / path: joining "." or the empty path gives the directory
\* itself, joining an absolute path gives that path.
UploadsPath(file_path) ==
    IF file_path \in {<<>>, <<".">>} THEN UploadsDir
    ELSE IF Head(file_path) = "/" THEN file_path
    ELSE UploadsDir \o <<"/">> \o file_path

\* Path.exists() for uploads_dir / path.
UploadsPathExists(file_path) ==
    IF file_path \in {<<>>, <<".">>} THEN uploads # {}
    ELSE IF Head(file_path) = "/" THEN file_path \in AbsPaths
    ELSE file_path \in uploads

\* resolve_upload_path(file_path), lines 92-109: the paths it can return,
\* {FileNotFound} when it raises.
ResolveUploadPath(file_path) ==
    IF file_path # <<>> /\ Head(file_path) = "/" /\ file_path \in AbsPaths
    THEN {file_path}
    ELSE IF UploadsPathExists(file_path) THEN {UploadsPath(file_path)}
    ELSE IF FindMatchingFile(file_path) # {None}
         THEN {UploadsPath(f) : f \in FindMatchingFile(file_path)}
    ELSE {FileNotFound}

\* The files that come to lie in ./uploads and the references asked for.
UploadNames == {<<"a", ".", "c", "s", "v">>, <<"x", "A", ".", "c", "s", "v">>, <<"r", "e", "v", "e", "n", "u", "e", ".", "c", "s", "v">>, <<"d", "a", "t", "a", ".", "j", "s", "o", "n">>}
References == {<<"a", ".", "c", "s", "v">>, <<"A">>, <<"s", "a", "l", "e", "s", "-", "d", "a", "t", "a">>, <<"m", "y", " ", "d", "a", "t", "a">>, <<"/", "t">>, <<"/", "n">>, <<".">>, <<"z", "z">>}

\* A file is saved into ./uploads.
PutUpload(f) ==
    /\ f \notin uploads
    /\ uploads' = uploads \cup {<<".">>, f}
    /\ UNCHANGED <<resolved, enhLocals, execVars, imageVars, scrapeVars>>

\* One call of resolve_upload_path.
Resolve(file_path) ==
    /\ \E p \in ResolveUploadPath(file_path) :
          resolved' = [file_path |-> file_path, path |-> p, listing |-> uploads]
    /\ UNCHANGED <<uploads, enhLocals, execVars, imageVars, scrapeVars>>

NextResolve ==
    \/ \E f \in UploadNames : PutUpload(f)
    \/ \E file_path \in References : Resolve(file_path)

SpecResolve == Init /\ [][NextResolve]_vars

----------------------------------------------------------------------------
(* EnhancedDockerCodeTool.execute, one action per step of a call e.        *)

\* An upload is given by content or by path; the key that is absent from
\* the dict is None here.
EnhUploadChoices ==
    {[container_path |-> <<"/", "u">>, content |-> <<"h", "i">>, path |-> None],
     [container_path |-> <<"/", "u">>, content |-> None, path |-> <<"a", ".", "c", "s", "v">>]}

EnhRequests ==
    [code : {UserCode},
     env_vars : EnvChoices,
     upload_files : SeqUpTo(EnhUploadChoices, MaxUploads),
     download_paths : SeqUpTo({<<"/", "a">>}, MaxDownloads),
     requirements : RequirementChoices]

EGoto(e, label) == epc' = [epc EXCEPT ![e] = label]
ERaise(e, msg, label) == eexc' = [eexc EXCEPT ![e] = msg] /\ EGoto(e, label)

\* execute(**kwargs), lines 127-132.
ECall(e, r) ==
    /\ epc[e] = "idle"
    /\ ereq' = [ereq EXCEPT ![e] = r]
    /\ EGoto(e, "script")
    /\ UNCHANGED <<econtainer, eexc, eret, eup, edl, downloads, uploads, resolved, cleaning>>
    /\ UNCHANGED <<execVars, imageVars, scrapeVars>>

\* Lines 134-137: the temporary directory and script.py; an error here
\* leaves execute with no container made.
EScript(e) ==
    /\ epc[e] = "script"
    /\ \/ EGoto(e, "run") /\ UNCHANGED eexc
       \/ ERaise(e, WriteError, "raised")
    /\ UNCHANGED <<ereq, econtainer, eret, eup, edl, downloads, uploads, resolved, cleaning>>
    /\ UNCHANGED <<execVars, imageVars, scrapeVars>>

\* The container lines 112-119 ask for: containers.run is given the image,
\* the command, detach, remove and the environment, and nothing else.
EnhContainer(e) ==
    [owner |-> e,
     image |-> "python:3.9-slim",
     command |-> <<"tail -f /dev/null">>,
     volume |-> None, bind |-> "", mode |-> "",
     environment |-> ereq[e].env_vars,
     mem_limit |-> "", memswap_limit |-> "",
     cpu_period |-> 0, cpu_quota |-> 0,
     network_disabled |-> FALSE, user |-> "",
     status |-> "running", exit |-> -1, out |-> <<>>, err |-> <<>>, wrote |-> {},
     pip |-> "none", ran_user |-> FALSE, auto_remove |-> TRUE]

\* prepare_container, lines 112-119, called at line 139 ahead of the try:
\* client.containers.run starts the container.
ERun(e) ==
    /\ epc[e] = "run"
    /\ \/ \E k \in {Fresh(ContainerIds \ DOMAIN containers)} :
            /\ containers' = Put(containers, k, EnhContainer(e))
            /\ econtainer' = [econtainer EXCEPT ![e] = k]
            /\ EGoto(e, IF Len(ereq[e].requirements) > 0 THEN "install" ELSE "uploads")
            /\ UNCHANGED eexc
       \/ /\ ERaise(e, <<"500 Server Error: could not run container">>, "raised")
          /\ UNCHANGED <<containers, econtainer>>
    /\ UNCHANGED <<ereq, eret, eup, edl, downloads, uploads, resolved, cleaning>>
    /\ UNCHANGED <<execLocals, imageVars, scrapeVars>>

\* prepare_container, lines 121-123: exec_run of pip install. Its exit code
\* is not looked at; when the call to the daemon raises, the exception
\* leaves prepare_container and execute, the try of line 141 not entered.
EInstall(e) ==
    /\ epc[e] = "install"
    /\ \/ /\ containers[econtainer[e]].status = "running"
          /\ \E p \in {"ok", "failed"} :
                containers' = [containers EXCEPT ![econtainer[e]].pip = p]
          /\ EGoto(e, "uploads")
          /\ UNCHANGED eexc
       \/ /\ ERaise(e, <<"500 Server Error: exec failed">>, "raised")
          /\ UNCHANGED containers
    /\ UNCHANGED <<ereq, econtainer, eret, eup, edl, downloads, uploads, resolved, cleaning>>
    /\ UNCHANGED <<execLocals, imageVars, scrapeVars>>

\* Lines 142-154: one round of the upload loop.
EUpload(e) ==
    LET spec == ereq[e].upload_files[eup[e]]
    IN  /\ epc[e] = "uploads"
        /\ eup[e] <= Len(ereq[e].upload_files)
        /\ \/ /\ containers[econtainer[e]].status # "removed"
              /\ IF spec.content # None THEN TRUE
                 ELSE ResolveUploadPath(spec.path) # {FileNotFound}
              /\ eup' = [eup EXCEPT ![e] = @ + 1]
              /\ UNCHANGED <<epc, eexc>>
           \/ /\ spec.content = None
              /\ FileNotFound \in ResolveUploadPath(spec.path)
              /\ ERaise(e, FileNotFound, "stop")
              /\ UNCHANGED eup
           \/ /\ ERaise(e, <<"500 Server Error: put_archive failed">>, "stop")
              /\ UNCHANGED eup
        /\ UNCHANGED <<ereq, econtainer, eret, edl, downloads, uploads, resolved, cleaning>>
        /\ UNCHANGED <<execVars, imageVars, scrapeVars>>

\* Line 156: the script is copied into the container.
EPutScript(e) ==
    /\ epc[e] = "uploads"
    /\ eup[e] > Len(ereq[e].upload_files)
    /\ \/ /\ containers[econtainer[e]].status # "removed"
          /\ EGoto(e, "exec")
          /\ UNCHANGED eexc
       \/ ERaise(e, <<"500 Server Error: put_archive failed">>, "stop")
    /\ UNCHANGED <<ereq, econtainer, eret, eup, edl, downloads, uploads, resolved, cleaning>>
    /\ UNCHANGED <<execVars, imageVars, scrapeVars>>

\* Line 157: exec_run of python /script.py: the code of the user runs in
\* the container and its output comes back, stdout and stderr in one
\* stream.
EExec(e) ==
    LET k == econtainer[e]
    IN  /\ epc[e] = "exec"
        /\ \/ \E run \in ProcessRuns :
                /\ containers[k].status = "running"
                /\ containers' = [containers EXCEPT ![k].exit = run.code,
                                                    ![k].out = run.out \o run.err,
                                                    ![k].wrote = IF run.writes
                                                                 THEN {<<"/", "a">>} ELSE {},
                                                    ![k].ran_user = TRUE]
                /\ EGoto(e, "downloads")
                /\ UNCHANGED eexc
           \/ /\ ERaise(e, <<"500 Server Error: exec failed">>, "stop")
              /\ UNCHANGED containers
        /\ UNCHANGED <<ereq, econtainer, eret, eup, edl, downloads, uploads, resolved, cleaning>>
        /\ UNCHANGED <<execLocals, imageVars, scrapeVars>>

\* Lines 159-167: one round of the download loop. The chunks get_archive
\* yields are those of a tar stream; they are written as they come, to
\* downloads_dir / name. A container that is gone gives NotFound as a
\* missing file does.
EDownload(e) ==
    LET k     == econtainer[e]
        path  == ereq[e].download_paths[edl[e]]
        name  == Basename(path)
        there == path \in containers[k].wrote /\ containers[k].status # "removed"
        by    == IF name \in DOMAIN downloads THEN downloads[name].by ELSE <<>>
    IN  /\ epc[e] = "downloads"
        /\ edl[e] <= Len(ereq[e].download_paths)
        /\ \/ /\ there
              /\ downloads' = Put(downloads, name,
                                  [data |-> TarArchive(name, ProcessWrote),
                                   by |-> Append(by, e)])
              /\ edl' = [edl EXCEPT ![e] = @ + 1]
              /\ UNCHANGED <<epc, eexc>>
           \/ /\ ~there                      \* docker.errors.NotFound: a warning
              /\ edl' = [edl EXCEPT ![e] = @ + 1]
              /\ UNCHANGED <<epc, eexc, downloads>>
           \/ /\ ERaise(e, IF there THEN WriteError ELSE ArchiveError, "stop")
              /\ UNCHANGED <<edl, downloads>>
        /\ UNCHANGED <<ereq, econtainer, eret, eup, uploads, resolved, cleaning>>
        /\ UNCHANGED <<execVars, imageVars, scrapeVars>>

\* Line 169: return result.output.decode.
EReturn(e) ==
    LET output == containers[econtainer[e]].out
    IN  /\ epc[e] = "downloads"
        /\ edl[e] > Len(ereq[e].download_paths)
        /\ IF Utf8Valid(output)
           THEN /\ eret' = [eret EXCEPT ![e] = Utf8Decode(output)]
                /\ EGoto(e, "stop")
                /\ UNCHANGED eexc
           ELSE /\ ERaise(e, DecodeError, "stop")
                /\ UNCHANGED eret
        /\ UNCHANGED <<ereq, econtainer, eup, edl, downloads, uploads, resolved, cleaning>>
        /\ UNCHANGED <<execVars, imageVars, scrapeVars>>

\* Line 172, in the finally clause: container.stop(). When it raises, the
\* exception leaves the finally clause and line 173 is not reached.
EStop(e) ==
    LET k == econtainer[e]
    IN  /\ epc[e] = "stop"
        /\ \/ /\ containers[k].status # "removed"
              /\ containers' = [containers EXCEPT ![k].status = "exited"]
              /\ EGoto(e, "remove")
              /\ UNCHANGED <<eexc, eret>>
           \/ /\ ERaise(e, <<"500 Server Error: stop failed">>, "raised")
              /\ eret' = [eret EXCEPT ![e] = None]
              /\ UNCHANGED containers
        /\ UNCHANGED <<ereq, econtainer, eup, edl, downloads, uploads, resolved, cleaning>>
        /\ UNCHANGED <<execLocals, imageVars, scrapeVars>>

\* The daemon removes a container run with remove=True (line 116) once it
\* has exited.
AutoRemove(k) ==
    /\ k \in DOMAIN containers
    /\ containers[k].auto_remove
    /\ containers[k].status = "exited"
    /\ containers' = [containers EXCEPT ![k].status = "removed"]
    /\ UNCHANGED <<enhVars, execLocals, imageVars, scrapeVars>>

\* Line 173: container.remove(force=True), which raises NotFound when the
\* daemon has removed the container already; then execute returns, or
\* raises the exception in flight.
ERemove(e) ==
    LET k == econtainer[e]
    IN  /\ epc[e] = "remove"
        /\ \/ /\ containers[k].status # "removed"
              /\ containers' = [containers EXCEPT ![k].status = "removed"]
              /\ EGoto(e, IF eexc[e] = None THEN "returned" ELSE "raised")
              /\ UNCHANGED <<eexc, eret>>
           \/ /\ ERaise(e, IF containers[k].status = "removed"
                            THEN NotFoundError ELSE RemoveError, "raised")
              /\ eret' = [eret EXCEPT ![e] = None]
              /\ UNCHANGED containers
        /\ UNCHANGED <<ereq, econtainer, eup, edl, downloads, uploads, resolved, cleaning>>
        /\ UNCHANGED <<execLocals, imageVars, scrapeVars>>

\* One call of EnhancedDockerCodeTool.execute, files being saved into
\* ./uploads and the daemon removing exited containers meanwhile.
NextEnh ==
    \/ \E r \in EnhRequests : ECall(1, r)
    \/ EScript(1)
    \/ ERun(1)
    \/ EInstall(1)
    \/ EUpload(1)
    \/ EPutScript(1)
    \/ EExec(1)
    \/ EDownload(1)
    \/ EReturn(1)
    \/ EStop(1)
    \/ ERemove(1)
    \/ \E k \in ContainerIds : AutoRemove(k)
    \/ PutUpload(<<"a", ".", "c", "s", "v">>)

SpecEnh == Init /\ [][NextEnh]_vars

\* cleanup(), line 177: client.containers.list with the ancestor filter
\* gives the running containers of the image, whoever started them.
CleanupList ==
    /\ cleaning.pc = "idle"
    /\ cleaning' = [pc |-> "loop",
                    todo |-> {k \in DOMAIN containers :
                                 /\ containers[k].image = "python:3.9-slim"
                                 /\ containers[k].status = "running"}]
    /\ UNCHANGED <<epc, ereq, econtainer, eexc, eret, eup, edl, downloads,
                   uploads, resolved>>
    /\ UNCHANGED <<execVars, imageVars, scrapeVars>>

\* cleanup(), lines 178-182: one round of the loop stops and removes a
\* container of the list; an exception ends the loop and is printed. The
\* loop over, cleanup returns.
CleanupOne(k) ==
    /\ cleaning.pc = "loop"
    /\ IF cleaning.todo = {}
       THEN /\ cleaning' = [pc |-> "idle", todo |-> {}]
            /\ UNCHANGED containers
       ELSE /\ k \in cleaning.todo
            /\ \/ /\ containers[k].status # "removed"
                  /\ containers' = [containers EXCEPT ![k].status = "removed"]
                  /\ cleaning' = [cleaning EXCEPT !.todo = @ \ {k}]
               \/ /\ containers' \in
                        {containers,
                         [containers EXCEPT ![k].status =
                              IF @ = "running" THEN "exited" ELSE @]}
                  /\ cleaning' = [pc |-> "idle", todo |-> {}]
    /\ UNCHANGED <<epc, ereq, econtainer, eexc, eret, eup, edl, downloads,
                   uploads, resolved>>
    /\ UNCHANGED <<execLocals, imageVars, scrapeVars>>

\* The request of call e when two calls run side by side; both ask for
\* the file /a of their container.
EnhConcRequest(e) ==
    [code |-> UserCode,
     env_vars |-> <<>>,
     upload_files |-> IF e = 1 THEN <<[container_path |-> <<"/", "u">>,
                                       content |-> <<"h", "i">>, path |-> None]>>
                      ELSE <<>>,
     download_paths |-> <<<<"/", "a">>>>,
     requirements |-> IF e = 1 THEN <<<<"r", "q">>>> ELSE <<>>]

\* Two calls of execute and calls of cleanup on threads of their own.
NextEnhConc ==
    \/ \E e \in CallIds :
        \/ ECall(e, EnhConcRequest(e))
        \/ EScript(e)
        \/ ERun(e)
        \/ EInstall(e)
        \/ EUpload(e)
        \/ EPutScript(e)
        \/ EExec(e)
        \/ EDownload(e)
        \/ EReturn(e)
        \/ EStop(e)
        \/ ERemove(e)
    \/ \E k \in ContainerIds : AutoRemove(k)
    \/ CleanupList
    \/ \E k \in ContainerIds : CleanupOne(k)

SpecEnhConc == Init /\ [][NextEnhConc]_vars

----------------------------------------------------------------------------
(* DocumentationScraperTool.execute and scrape_page. A frame of scrape_page *)
(* holds its url and current_depth and, once the page is saved, the links   *)
(* the loop of line 153 has yet to visit.                                   *)

Frame(url, depth) == [url |-> url, depth |-> depth, at |-> "enter", links |-> {}]

\* execute, lines 170-180, on a fresh instance: the first call of
\* scrape_page, on base_url at depth 1.
ScrapeExecute(web, max_depth) ==
    /\ spc = "idle"
    /\ spc' = "scraping"
    /\ site' = web
    /\ sreq' = [base_url |-> "A", max_depth |-> max_depth]
    /\ stack' = <<Frame("A", 1)>>
    /\ UNCHANGED <<processed_urls, toc_entries, fetches>>
    /\ UNCHANGED <<execVars, imageVars, enhVars>>

\* scrape_page, lines 115-152: the guard, the fetch, the page saved and
\* its entry added, the links extracted.
ScrapePage ==
    LET top == stack[Len(stack)]
        pop == SubSeq(stack, 1, Len(stack) - 1)
    IN  /\ spc = "scraping"
        /\ stack # <<>>
        /\ top.at = "enter"
        /\ IF top.depth > sreq.max_depth \/ top.url \in processed_urls
           THEN /\ stack' = pop
                /\ UNCHANGED <<processed_urls, toc_entries, fetches>>
           ELSE /\ processed_urls' = processed_urls \cup {top.url}
                /\ \/ /\ fetches' = Append(fetches, [url |-> top.url, ok |-> TRUE])
                      /\ toc_entries' = Append(toc_entries,
                                               [url |-> top.url, depth |-> top.depth])
                      /\ stack' = Append(pop, [top EXCEPT !.at = "links",
                                                          !.links = site[top.url]])
                   \/ /\ fetches' = Append(fetches, [url |-> top.url, ok |-> FALSE])
                      /\ stack' = pop
                      /\ UNCHANGED toc_entries
        /\ UNCHANGED <<spc, sreq, site>>
        /\ UNCHANGED <<execVars, imageVars, enhVars>>

\* scrape_page, lines 153-155: one round of the loop over the set links,
\* in whatever order the set yields them; the loop over, the call returns.
FollowLink ==
    LET top == stack[Len(stack)]
        pop == SubSeq(stack, 1, Len(stack) - 1)
    IN  /\ spc = "scraping"
        /\ stack # <<>>
        /\ top.at = "links"
        /\ IF top.links = {}
           THEN stack' = pop
           ELSE \E link \in top.links :
                    stack' = Append(pop, [top EXCEPT !.links = @ \ {link}])
                             \o <<Frame(link, top.depth + 1)>>
        /\ UNCHANGED <<spc, sreq, site, processed_urls, toc_entries, fetches>>
        /\ UNCHANGED <<execVars, imageVars, enhVars>>

\* execute, lines 183-193: the first scrape_page has returned; the table
\* of contents is written and the summary returned.
ScrapeReturn ==
    /\ spc = "scraping"
    /\ stack = <<>>
    /\ spc' = "done"
    /\ UNCHANGED <<sreq, site, processed_urls, toc_entries, fetches, stack>>
    /\ UNCHANGED <<execVars, imageVars, enhVars>>

NextScrape ==
    \/ \E web \in Sites : \E max_depth \in 1..MaxDepth : ScrapeExecute(web, max_depth)
    \/ ScrapePage
    \/ FollowLink
    \/ ScrapeReturn

SpecScrape == Init /\ [][NextScrape]_vars

----------------------------------------------------------------------------
(* The claims.                                                             *)

Returned(c) == pc[c] = "returned"
Ended(c) == pc[c] \in {"returned", "raised"}
RemovalIssued(c, k) ==
    \E i \in 1..Len(ops[c]) : ops[c][i] = [op |-> "remove_force", on |-> k]
\* The run of call c went through the handler / came back with its response.
ThroughHandler(c) == Returned(c) /\ ret[c] = Failure(ret[c].stderr)
\* Both channels of the logs of the container k decode.
Readable(k) == Utf8Valid(containers[k].out) /\ Utf8Valid(containers[k].err)
IsText(s) == s # None

\* C1 as stated: execute never raises, its result carries success, stdout,
\* stderr, error and downloaded_files, and success is false whenever any
\* step failed (staging, create, start, wait, log read, artifact collection,
\* container removal, temp-dir removal).
C1_AnyFailedStepFails ==
    \A c \in CallIds :
        Ended(c) =>
            /\ Returned(c)
            /\ ret[c] # NoResponse
            /\ faults[c] # {} => ret[c].success = FALSE

\* C1 amended: execute never raises, its result carries a boolean success,
\* text in stdout and stderr, an error and downloaded_files, and success is
\* false whenever staging, create, start, wait, the log read or the
\* container removal failed. A failed artifact extraction or a failed
\* removal of the temporary directory leaves success as the run decided it.
C1_ResultAlwaysReturned ==
    \A c \in CallIds :
        Ended(c) =>
            /\ Returned(c)
            /\ ret[c] # NoResponse
            /\ DOMAIN ret[c] = {"success", "stdout", "stderr", "error", "downloaded_files"}
            /\ ret[c].success \in BOOLEAN
            /\ IsText(ret[c].stdout) /\ IsText(ret[c].stderr)
            /\ faults[c] \cap {"staging", "create", "start", "wait", "logs",
                               "decode", "remove"} # {}
                   => ret[c].success = FALSE

\* C1 witness: a call whose upload could not be decoded has returned a
\* failed result.
C1_Witness ==
    /\ Returned(1)
    /\ "staging" \in faults[1]
    /\ ret[1].success = FALSE
    /\ ret[1].stderr = PaddingError

\* C2 as stated: once a call has returned, the temporary directory made for
\* it no longer exists (the removal of the directory itself not failing).
C2_StagingDirRemoved ==
    \A c \in CallIds :
        (Returned(c) /\ "rmtree" \notin faults[c]) => prep[c].temp_dir \notin DOMAIN fs

\* C3: every container a call created has had remove(force=True) issued on
\* it by the time the call ends.
C3_CreatedContainerRemoved ==
    \A c \in CallIds :
        Ended(c) =>
            \A k \in DOMAIN containers :
                containers[k].owner = c => RemovalIssued(c, k)

\* C3 witness: a call whose container was created but failed to start has
\* returned, the removal issued.
C3_Witness ==
    /\ Returned(1)
    /\ "start" \in faults[1]
    /\ container[1] \in DOMAIN containers
    /\ containers[container[1]].status = "removed"
    /\ RemovalIssued(1, container[1])

\* C4 as stated: when the wait timed out, the removal of the container was
\* issued and the result has success false, no exit code and an error that
\* indicates the timeout.
C4_TimeoutReported ==
    \A c \in CallIds :
        (Returned(c) /\ "timeout" \in faults[c]) =>
            /\ RemovalIssued(c, container[c])
            /\ ret[c].success = FALSE
            /\ ~Contains(ExitCodeText, ret[c].error)
            /\ Contains(ReadTimeout, ret[c].error)

\* C5 as stated: when the wait timed out and the logs of the container are
\* readable, the result holds what the process wrote to stdout and stderr.
C5_TimeoutKeepsOutput ==
    \A c \in CallIds :
        (Returned(c) /\ "timeout" \in faults[c] /\ Readable(container[c])) =>
            /\ ret[c].stdout = Utf8Decode(containers[container[c]].out)
            /\ ret[c].stderr = Utf8Decode(containers[container[c]].err)

\* C6 as stated: when the process exited with 0, its output was collected
\* and the removal of the container failed, the successful response is
\* what the call returns.
C6_TeardownNotEscalated ==
    \A c \in CallIds :
        (Returned(c) /\ result[c] = 0 /\ response[c] # NoResponse
            /\ "remove" \in faults[c]) =>
            /\ ret[c] = response[c]
            /\ ret[c].success = TRUE
            /\ ret[c].error = None

\* The bytes a downloaded_files entry decodes to.
EntryBytes(entry) == B64Decode(SplitSecond(Base64Marker, entry)).bytes
IsEncoded(entry) ==
    /\ Len(entry) >= Len(DataUriPrefix)
    /\ SubSeq(entry, 1, Len(DataUriPrefix)) = DataUriPrefix

\* C7 as stated: a file uploaded as base64 content under a name, left
\* alone by the process and downloaded under the same name, decodes to the
\* bytes that were uploaded.
C7_RoundTrip ==
    \A c \in CallIds :
        Returned(c) =>
            \A i \in 1..Len(req[c].upload_files) :
                LET n == req[c].upload_files[i].container_path
                    content == req[c].upload_files[i].content
                IN  (/\ Contains(Base64Marker, content)
                     /\ UploadBytes(content).ok
                     /\ n \in DOMAIN ret[c].downloaded_files
                     /\ IsEncoded(ret[c].downloaded_files[n])
                     /\ Basename(n) \notin containers[container[c]].wrote)
                    => EntryBytes(ret[c].downloaded_files[n]) = UploadBytes(content).bytes

\* C8 as stated: when the process exited with a code n other than 0 within
\* the timeout and the daemon delivered its logs, the call returns, on the
\* normal path, success false, an error naming n and the output of the
\* process in stdout and stderr.
C8_NonZeroExitReported ==
    \A c \in CallIds :
        (Returned(c) /\ result[c] > 0 /\ "logs" \notin faults[c]) =>
            /\ ret[c].success = FALSE
            /\ ret[c].error = ExitCodeText \o ToStr(result[c])
            /\ Readable(container[c])
            /\ ret[c].stdout = Utf8Decode(containers[container[c]].out)
            /\ ret[c].stderr = Utf8Decode(containers[container[c]].err)
            /\ ~ThroughHandler(c)

\* C9 as stated: when the download loop has run, every requested path has
\* an entry in the returned downloaded_files, the encoded content or an
\* error text, and success, stdout and stderr are those of the run.
C9_DownloadFailureScoped ==
    \A c \in CallIds :
        (Returned(c) /\ response[c] # NoResponse) =>
            /\ \A i \in 1..Len(req[c].download_paths) :
                  LET path == req[c].download_paths[i]
                  IN  /\ path \in DOMAIN ret[c].downloaded_files
                      /\ \/ IsEncoded(ret[c].downloaded_files[path])
                         \/ SubSeq(ret[c].downloaded_files[path], 1, 1) = ErrorDownloading
            /\ ret[c].success = (result[c] = 0)
            /\ ret[c].stdout = Utf8Decode(containers[container[c]].out)
            /\ ret[c].stderr = Utf8Decode(containers[container[c]].err)

\* C10 as stated: python-sandbox:latest is built at most once, and no
\* constructor that started when the image existed goes on to build it.
C10_BuiltAtMostOnce ==
    /\ builds <= 1
    /\ \A n \in late : ipc[n] \in {"get", "done", "raised"}


\* What call c staged under the name n, or what its own process wrote there.
OwnFile(c, n, bytes) ==
    \/ n = MainPy /\ bytes = Utf8Encode(MainScript(req[c]))
    \/ \E i \in 1..Len(req[c].upload_files) :
          /\ n = Basename(req[c].upload_files[i].container_path)
          /\ bytes = UploadBytes(req[c].upload_files[i].content).bytes
    \/ /\ container[c] \in DOMAIN containers
       /\ n \in containers[container[c]].wrote
       /\ bytes = ProcessWrote

\* C11: at every point of two calls running side by side, the two calls
\* stage into different directories, every container binds the directory
\* of the call that created it and holds that call's env_vars only, and a
\* staging directory holds nothing but what its own call staged or its own
\* process wrote.
C11_CallsIsolated ==
    /\ \A c \in CallIds : \A b \in CallIds \ {c} :
          prep[c].temp_dir # None => prep[c].temp_dir # prep[b].temp_dir
    /\ \A k \in DOMAIN containers :
          LET c == containers[k].owner
          IN  /\ containers[k].volume = prep[c].temp_dir
              /\ containers[k].environment = req[c].env_vars
              /\ \A b \in CallIds \ {c} : container[b] # k
    /\ \A c \in CallIds :
          prep[c].temp_dir \in DOMAIN fs =>
              \A n \in DOMAIN fs[prep[c].temp_dir] :
                  OwnFile(c, n, fs[prep[c].temp_dir][n])

\* C11 witness: the processes of both calls have run, each in its own
\* container bound to its own directory, with different values of K.
C11_Witness ==
    /\ pc[1] = "logs" /\ pc[2] = "logs"
    /\ containers[container[1]].environment # containers[container[2]].environment
    /\ containers[container[1]].volume # containers[container[2]].volume
    /\ containers[container[1]].wrote # {} /\ containers[container[2]].wrote # {}


\* The error texts a failure of the user's own code can end a run with.
UserFailures == {ExitCodeText \o ToStr(run.code) : run \in {p \in ProcessRuns : p.code # 0}}

\* C12 as stated: in a call with requirements, the user's code has started
\* only if the installation succeeded, and when the installation failed
\* the error of the result is none a failure of the user's own code can
\* produce.
C12_InstallFailureDistinct ==
    \A c \in CallIds :
        (Returned(c) /\ Len(req[c].requirements) > 0 /\ response[c] # NoResponse
            /\ "remove" \notin faults[c]) =>
            LET k == containers[container[c]]
            IN  /\ k.ran_user => k.pip = "ok"
                /\ k.pip = "failed" =>
                      /\ ret[c].success = FALSE
                      /\ ret[c].error \notin UserFailures


\* The container k has the limits of the isolation contract.
Confined(k) ==
    /\ containers[k].mem_limit # ""
    /\ containers[k].memswap_limit = containers[k].mem_limit
    /\ containers[k].cpu_period > 0
    /\ 2 * containers[k].cpu_quota = containers[k].cpu_period
    /\ containers[k].network_disabled
    /\ containers[k].user \notin {"", "root"}

\* C13 as stated: every container in which the code of the user has run
\* was created with a memory ceiling and an equal swap limit, a CPU quota of
\* half a core, no network and a user other than root.
C13_UserCodeConfined ==
    \A k \in DOMAIN containers : containers[k].ran_user => Confined(k)


\* C14 as stated: no constructor ends by raising; a failure of the
\* existence check or of the build of the image is not an exception out of
\* the constructor.
C14_ImageFailureNotRaised ==
    \A n \in Instances : ipc[n] # "raised"


\* The steps of call c out of which an exception came: a failed download
\* is caught inside the download loop and a failed rmtree does not raise.
Raised(c) ==
    faults[c] \cap {"staging", "create", "start", "wait", "logs", "decode", "remove"}

\* C15: in every result execute returns, error is None exactly when success
\* is true, and success is true exactly when the wait returned exit code 0
\* and no step raised; a call without requirements whose process printed
\* ok and exited 0, no step raising, returns success with ok in stdout and
\* no error.
C15_SuccessAndError ==
    \A c \in CallIds :
        Returned(c) =>
            /\ (ret[c].error = None) <=> (ret[c].success = TRUE)
            /\ (ret[c].success = TRUE) <=> (result[c] = 0 /\ Raised(c) = {})
            /\ (/\ Len(req[c].requirements) = 0
                /\ result[c] = 0
                /\ Raised(c) = {}
                /\ containers[container[c]].out = OkOut)
               => /\ ret[c].success = TRUE
                  /\ Contains(<<"o", "k">>, ret[c].stdout)
                  /\ ret[c].error = None

\* C15 witness: a call without requirements whose process printed ok and
\* exited 0 has returned success and no error.
C15_Witness ==
    /\ Returned(1)
    /\ Len(req[1].requirements) = 0
    /\ result[1] = 0
    /\ containers[container[1]].out = OkOut
    /\ ret[1].success = TRUE
    /\ ret[1].error = None
    /\ Contains(<<"o", "k">>, ret[1].stdout)


\* The place of each operation in the order of the claim.
Rank(op) ==
    CASE op = "stage" -> 1 [] op = "create" -> 2 [] op = "start" -> 3
      [] op = "wait" -> 4 [] op = "logs" -> 5 [] op = "collect" -> 6
      [] op = "remove_force" -> 7 [] op = "rmtree" -> 8

\* C16: the operations a call has issued so far are in the order stage,
\* create, start, wait, logs, collect, remove, rmtree; each but collect,
\* which is issued once for each path, was issued at most once; and
\* nothing was issued on a container after its removal was issued.
C16_OperationOrder ==
    \A c \in CallIds :
        \A i \in 1..Len(ops[c]) : \A j \in (i + 1)..Len(ops[c]) :
            /\ Rank(ops[c][i].op) <= Rank(ops[c][j].op)
            /\ Rank(ops[c][i].op) = Rank(ops[c][j].op) => ops[c][i].op = "collect"
            /\ ops[c][i].op = "remove_force" => ops[c][j].on # ops[c][i].on

\* C16 witness: a call has gone through all eight operations.
C16_Witness ==
    /\ Returned(1)
    /\ {ops[1][i].op : i \in 1..Len(ops[1])} =
           {"stage", "create", "start", "wait", "logs", "collect", "remove_force", "rmtree"}


\* C17: once the staging of a call has failed, no container is created or
\* started for the call, and the result the call returns has success
\* false, an empty stdout and no downloaded files.
C17_StagingFailureStopsRun ==
    \A c \in CallIds :
        "staging" \in faults[c] =>
            /\ container[c] = None
            /\ \A k \in DOMAIN containers : containers[k].owner # c
            /\ \A i \in 1..Len(ops[c]) : ops[c][i].op \notin {"create", "start"}
            /\ Returned(c) =>
                  /\ ret[c].success = FALSE
                  /\ ret[c].stdout = <<>>
                  /\ ret[c].downloaded_files = <<>>

\* C17 witness: a call whose write of an input raised OSError has returned
\* a failed result, nothing issued to the daemon.
C17_Witness ==
    /\ Returned(1)
    /\ "staging" \in faults[1]
    /\ ret[1].stderr = WriteError
    /\ ret[1].stdout = <<>>
    /\ containers = <<>>


\* C18 as stated: when a call of EnhancedDockerCodeTool.execute has
\* returned or raised, every container it started has been stopped and
\* removed.
C18_EnhancedContainerRemoved ==
    \A e \in CallIds :
        epc[e] \in {"returned", "raised"} =>
            \A k \in DOMAIN containers :
                containers[k].owner = e => containers[k].status = "removed"


\* The four strategies of the claim in its order, each as the set of paths
\* it finds for the reference ref among the files.
Strategies(ref, files) ==
    <<{UploadsPath(f) : f \in {g \in files : g = ref}},
      IF ref # <<>> /\ Head(ref) = "/" /\ ref \in AbsPaths THEN {ref} ELSE {},
      {UploadsPath(f) : f \in {g \in files : Contains(Lower(ref), Lower(g))}},
      {UploadsPath(f) : f \in {g \in files : \E i \in 1..Len(Patterns) :
                                  /\ Contains(Patterns[i].key, Lower(ref))
                                  /\ GlobMatch(Patterns[i].pattern, g)}}>>

\* C19 as stated: resolve_upload_path returns a file found by the first
\* of the strategies exact name, existing absolute path, substring without
\* regard to case, keyword globs that finds one, and raises
\* FileNotFoundError exactly when none finds one.
C19_FirstMatchChain ==
    resolved.file_path # None =>
        LET found == Strategies(resolved.file_path, resolved.listing \ {<<".">>})
            hits == {i \in 1..4 : found[i] # {}}
        IN  IF hits = {} THEN resolved.path = FileNotFound
            ELSE resolved.path \in found[CHOOSE i \in hits : \A j \in hits : i <= j]


\* C20 as stated: when _prepare_container_files has returned, main.py
\* holds the preamble, if there are requirements, followed by the code of
\* the user, and requirements.txt holds the requested packages, whatever
\* the uploads.
C20_EntryScriptIntact ==
    \A c \in CallIds :
        pc[c] = "create" =>
            LET staged == fs[temp_dir[c]]
            IN  /\ MainPy \in DOMAIN staged
                /\ staged[MainPy] = Utf8Encode(MainScript(req[c]))
                /\ Len(req[c].requirements) > 0 =>
                      /\ RequirementsTxt \in DOMAIN staged
                      /\ staged[RequirementsTxt] = Utf8Encode(Join(req[c].requirements))


\* C21 as stated: with calls of execute and of cleanup interleaved, no
\* file of ./downloads was written by more than one call, and the
\* container of a call that has not yet reached its own stop is running:
\* nobody else stopped or removed it.
C21_NothingShared ==
    /\ \A n \in DOMAIN downloads :
          \A i \in 1..Len(downloads[n].by) : downloads[n].by[i] = downloads[n].by[1]
    /\ \A e \in CallIds :
          epc[e] \in {"install", "uploads", "exec", "downloads", "stop"} =>
              containers[econtainer[e]].status = "running"


\* The urls a chain of at most n links leads to from base_url.
RECURSIVE Within(_)
Within(n) ==
    IF n = 0 THEN {sreq.base_url}
    ELSE Within(n - 1) \cup UNION {site[u] : u \in Within(n - 1)}

\* C22 as stated: when execute has returned and every fetch gave a
\* response, no url was fetched twice, and the pages saved are the urls a
\* chain of at most max_depth - 1 links leads to from base_url, all of
\* them and no other.
C22_CrawlWithinDepth ==
    (spc = "done" /\ \A i \in 1..Len(fetches) : fetches[i].ok) =>
        /\ \A i \in 1..Len(fetches) : \A j \in 1..Len(fetches) :
              fetches[i].url = fetches[j].url => i = j
        /\ {toc_entries[i].url : i \in 1..Len(toc_entries)} = Within(sreq.max_depth - 1)

====
